---- MODULE Spec2Model ----
(***************************************************************************)
(* A model of pyame.Client (src/pyame/client.py) and of the error classes  *)
(* of src/pyame/errors.py: the session lifecycle (create_session, close,   *)
(* async with), the request dispatcher (_request, _generate_request) and   *)
(* the status-to-exception registry.  Callers are asyncio tasks sharing    *)
(* one Client; a task is suspended only at an await of the code.           *)
(***************************************************************************)
EXTENDS Integers, Sequences, FiniteSets, TLC

\* ------------------------------------------------------------------ bounds

\* The concurrent callers of one Client, the ClientSessions it may construct,
\* and how deep a caller nests async with: of concurrent callers, of one caller.
NumTasks == 2
MaxSessions == 3
MaxDepth == 1
MaxNested == 2

Tasks == 1..NumTasks
SessionIds == 1..MaxSessions

\* ------------------------------------------------------------ python values

\* self.session = None
NoSession == 0

\* The api keys a Client may be constructed with.
ApiKeys == {"key-a", "key-b"}

\* utils.MISSING, and the argument values of the model, written as Python
\* writes them.  Every value but MISSING is a legitimate argument.
MISSING == "MISSING"

ArgValues == {"True", "False", "0", "''", "None", "'u'"}

\* bool(v) of an argument value.
Truthy(v) == v \in {"True", "'u'"}

\* The keyword arguments (**json) the model passes to a dispatch: a dict is a
\* function from its keys.
KwargValues(k) ==
    IF k = "url" THEN {"'u'", "''"} ELSE {MISSING, "True", "False", "0", "None"}

ParamNames == {"url", "greyscale"}

CallKwargs ==
    UNION {{kw \in [K -> {MISSING} \cup ArgValues] :
                \A k \in K : kw[k] \in KwargValues(k)} : K \in SUBSET ParamNames}

\* A dict (of str to str) is the set of its items; a response body, decoded or
\* not, is either a dict or a bytes object.
Dict(items) == [type |-> "dict", raw |-> "", items |-> items]
Bytes(raw) == [type |-> "bytes", raw |-> raw, items |-> {}]
NoData == [type |-> "none", raw |-> "", items |-> {}]

\* dict.get(key): None is the empty sequence, a value v is <<v>>.
DictGet(items, key) ==
    IF \E p \in items : p[1] = key
    THEN <<(CHOOSE p \in items : p[1] = key)[2]>>
    ELSE << >>

\* ------------------------------------------------------------ wire bodies

PngBody == "\\x89PNG"
TokenBody == "{\"message\": \"invalid token\"}"
UrlBody == "{\"url\": \"w\"}"
EmptyBody == "{}"

JsonBodies == {TokenBody, UrlBody, EmptyBody}
Bodies == JsonBodies \cup {PngBody}

\* json.loads(raw.decode()) on the bodies of the model.
JsonValid(raw) == raw \in JsonBodies

JsonLoads(raw) ==
    CASE raw = TokenBody -> Dict({<<"message", "invalid token">>})
      [] raw = UrlBody -> Dict({<<"url", "w">>})
      [] raw = EmptyBody -> Dict({})
      [] OTHER -> NoData

\* ------------------------------------------------------------- errors.py

HTTPException == [name |-> "HTTPException", status |-> -1]
BadRequest == [name |-> "BadRequest", status |-> 400]
UnauthorizedAs403 == [name |-> "Unauthorized", status |-> 403]

Unauthorized == [name |-> "Unauthorized", status |-> 401]
Forbidden == [name |-> "Forbidden", status |-> 403]
NotFound == [name |-> "NotFound", status |-> 404]
PayloadTooLarge == [name |-> "PayloadTooLarge", status |-> 413]
InternalServerError == [name |-> "InternalServerError", status |-> 500]
NotImplemented == [name |-> "NotImplemented", status |-> 501]
BadGateway == [name |-> "BadGateway", status |-> 502]
ServiceUnavailiable == [name |-> "ServiceUnavailiable", status |-> 503]

\* The subclasses of HTTPException (itself included) among globals().values(),
\* in definition order.
HTTPExceptionClasses ==
    <<HTTPException, BadRequest, Unauthorized, Forbidden, NotFound,
      PayloadTooLarge, InternalServerError, NotImplemented, BadGateway,
      ServiceUnavailiable>>

\* {cls.status: cls for cls in ...}: a later class replaces an earlier one
\* of the same status.
error_mapping ==
    [s \in {HTTPExceptionClasses[i].status : i \in DOMAIN HTTPExceptionClasses} |->
        LET last == CHOOSE i \in DOMAIN HTTPExceptionClasses :
                        /\ HTTPExceptionClasses[i].status = s
                        /\ \A j \in DOMAIN HTTPExceptionClasses :
                               HTTPExceptionClasses[j].status = s => j <= i
        IN  HTTPExceptionClasses[last]]

\* isinstance(exc, HTTPException), on the class name an exception carries.
IsHTTPException(exc) ==
    \E i \in DOMAIN HTTPExceptionClasses : HTTPExceptionClasses[i].name = exc.cls

\* An exception that is no HTTPException: it has neither status nor message.
OtherError(name) == [cls |-> name, status |-> 0, message |-> << >>, text |-> ""]
NoExc == OtherError("")

\* HTTPException.message
Message(data) == DictGet(data.items, "message")

\* cls(data): HTTPException.__init__ decodes a bytes body as JSON, and names
\* the exception f'{self.status} {self.message}' with the status of its class.
HTTPExceptionInitUndecoded(cls, data) ==
    LET m == Message(data)
    IN  [cls |-> cls.name, status |-> cls.status, message |-> m,
         text |-> ToString(cls.status) \o " " \o (IF m = << >> THEN "None" ELSE m[1])]

HTTPExceptionInit(cls, data) ==
    IF data.type = "bytes" /\ ~JsonValid(data.raw)
    THEN OtherError("JSONDecodeError")
    ELSE LET d == IF data.type = "dict" THEN data ELSE JsonLoads(data.raw)
             m == Message(d)
         IN  [cls |-> cls.name, status |-> cls.status, message |-> m,
              text |-> ToString(cls.status) \o " " \o
                       (IF m = << >> THEN "None" ELSE m[1])]

\* -------------------------------------------------------------- utils.py

\* The statuses a response of the model may have: the nine of the error
\* classes, two successes and two failures that have no class.
Statuses == {200, 201, 400, 401, 403, 404, 413, 418, 429, 500, 501, 502, 503}

IsSuccess(status) == status >= 200 /\ status < 300

JsonType == "application/json"
ImageType == "image/png"

\* What the server answers: a JSON content type comes with a JSON body, and a
\* failure always has a JSON body, whatever content type it declares.
Responses ==
    {r \in [status : Statuses, content_type : {JsonType, ImageType}, body : Bodies] :
        (r.content_type = JsonType \/ ~IsSuccess(r.status)) => JsonValid(r.body)}

\* json_or_data(response)
json_or_data(response) ==
    IF response.content_type = JsonType
    THEN JsonLoads(response.body)
    ELSE Bytes(response.body)

\* raise_http_errors(data, status): the exception it raises, NoExc when it
\* returns.
raise_http_errors(data, status) ==
    IF IsSuccess(status)
    THEN NoExc
    ELSE HTTPExceptionInit(IF status \in DOMAIN error_mapping
                           THEN error_mapping[status]
                           ELSE HTTPException, data)

\* ------------------------------------------------------------------ state

VARIABLES
    init_args,   \* the arguments Client.__init__ was called with
    api_key,     \* self.api_key
    session,     \* self.session: NoSession or the id of a ClientSession
    optimized,   \* the interpreter runs with -O: assert statements are removed
    sstate,      \* every ClientSession: "none" (not constructed), "open",
                 \* "closing" (close() called, not finished) or "closed"
    task,        \* every caller: where it is suspended, and its open scopes
    ev           \* what the last step did, as its caller observes it

vars == <<init_args, api_key, session, optimized, sstate, task, ev>>

NoRequest == << >>

Event(t, op, kind) ==
    [task |-> t, op |-> op, kind |-> kind, sess |-> NoSession, fresh |-> FALSE,
     opened |-> NoSession, args |-> << >>, kwargs |-> << >>, resp |-> << >>,
     sent |-> NoRequest, exc |-> NoExc, data |-> NoData]

IdleTask == [pc |-> "idle", op |-> "", tgt |-> NoSession, scopes |-> << >>, exc |-> FALSE]

\* The sessions constructed so far, and the ones not closed yet.
Created == {s \in SessionIds : sstate[s] # "none"}
Live == {s \in SessionIds : sstate[s] \in {"open", "closing"}}

\* Client.__init__(api_key)
Init ==
    /\ init_args \in [api_key : ApiKeys]
    /\ api_key = init_args.api_key
    /\ session = NoSession
    /\ optimized \in BOOLEAN
    /\ sstate = [s \in SessionIds |-> "none"]
    /\ task = [t \in Tasks |-> IdleTask]
    /\ ev = Event(0, "__init__", "return")

\* ------------------------------------------------------- session lifecycle

\* create_session, line 130: if self.session is None
NeedsSessionAlways(sess) == TRUE

NeedsSession(sess) == sess = NoSession

\* close, line 137: if self.session is not None
HasSessionNever(sess) == FALSE

HasSession(sess) == sess # NoSession

\* close, line 139: self.session = None
SessionAfterCloseKept == session

SessionAfterClose == NoSession

\* aiohttp.ClientSession(): the next session object.
NewSession == CHOOSE s \in SessionIds : sstate[s] = "none" /\ \A r \in Created : r < s

\* The body of create_session, run for operation op (create_session itself or
\* __aenter__); opened is the session it constructed, if any.
DoCreateSession(t, op, opened) ==
    /\ NeedsSession(session) => Cardinality(Created) < MaxSessions
    /\ IF NeedsSession(session)
       THEN /\ opened = NewSession
            /\ session' = NewSession
            /\ sstate' = [sstate EXCEPT ![NewSession] = "open"]
       ELSE /\ opened = NoSession
            /\ UNCHANGED <<session, sstate>>
    /\ ev' = [Event(t, op, "return") EXCEPT !.sess = session', !.fresh = NeedsSession(session)]

\* await client.create_session()
CreateSession(t) ==
    /\ task[t].pc = "idle"
    /\ \E opened \in SessionIds \cup {NoSession} : DoCreateSession(t, "create_session", opened)
    /\ UNCHANGED <<init_args, api_key, optimized, task>>

\* async with client: __aenter__ calls create_session and the scope is entered.
AEnter(t, depth) ==
    /\ task[t].pc = "idle"
    /\ Len(task[t].scopes) < depth
    /\ \E opened \in SessionIds \cup {NoSession} :
          /\ DoCreateSession(t, "__aenter__", opened)
          /\ task' = [task EXCEPT ![t].scopes = Append(@, opened)]
    /\ UNCHANGED <<init_args, api_key, optimized>>

\* Where an exception raised in task record tk goes: out of a scope it reaches
\* the caller; in a scope the body either handles it or lets it leave the scope.
AfterRaise(tk) ==
    IF Len(tk.scopes) = 0
    THEN {[tk EXCEPT !.pc = "idle", !.op = "", !.tgt = NoSession, !.exc = FALSE]}
    ELSE {[tk EXCEPT !.pc = p, !.op = "", !.tgt = NoSession, !.exc = FALSE] :
              p \in {"idle", "unwind"}}

\* The task record once close has returned for operation op: __aexit__ leaves
\* the innermost scope and, returning None, lets a pending exception go on.
AfterClose(tk, op, pending) ==
    LET idle == [tk EXCEPT !.pc = "idle", !.op = "", !.tgt = NoSession, !.exc = FALSE]
        left == [idle EXCEPT !.scopes = SubSeq(@, 1, Len(@) - 1)]
    IN  IF op = "__aexit__"
        THEN IF pending THEN AfterRaise(left) ELSE {left}
        ELSE {idle}

\* The session the innermost scope of task record tk opened at its entry.
ScopeOpened(tk, op) ==
    IF op = "__aexit__" THEN tk.scopes[Len(tk.scopes)] ELSE NoSession

\* close up to its await: with no session it returns at once, else it calls
\* self.session.close() and is suspended there.
DoClose(t, op, pending) ==
    IF HasSession(session)
    THEN /\ sstate' = [sstate EXCEPT ![session] = IF @ = "open" THEN "closing" ELSE @]
         /\ task' = [task EXCEPT ![t] =
                        [@ EXCEPT !.pc = "await", !.op = op, !.tgt = session, !.exc = pending]]
         /\ ev' = [Event(t, op, "await") EXCEPT !.sess = session]
         /\ UNCHANGED session
    ELSE /\ \E tk \in AfterClose(task[t], op, pending) : task' = [task EXCEPT ![t] = tk]
         /\ ev' = [Event(t, op, IF op = "__aexit__" /\ pending THEN "raise" ELSE "return")
                       EXCEPT !.opened = ScopeOpened(task[t], op)]
         /\ UNCHANGED <<session, sstate>>

\* await client.close()
Close(t) ==
    /\ task[t].pc = "idle"
    /\ DoClose(t, "close", FALSE)
    /\ UNCHANGED <<init_args, api_key, optimized>>

\* The scope is left, by the end of its body or by an exception: __aexit__
\* calls close.
AExit(t) ==
    /\ task[t].pc \in {"idle", "unwind"}
    /\ Len(task[t].scopes) > 0
    /\ DoClose(t, "__aexit__", task[t].pc = "unwind")
    /\ UNCHANGED <<init_args, api_key, optimized>>

\* close after its await: the session it awaited is closed, line 139 runs and
\* close returns.
CloseDone(t) ==
    /\ task[t].pc = "await"
    /\ task[t].op \in {"close", "__aexit__"}
    /\ sstate' = [sstate EXCEPT ![task[t].tgt] = "closed"]
    /\ session' = SessionAfterClose
    /\ \E tk \in AfterClose(task[t], task[t].op, task[t].exc) :
          task' = [task EXCEPT ![t] = tk]
    /\ ev' = [Event(t, task[t].op,
                    IF task[t].op = "__aexit__" /\ task[t].exc THEN "raise" ELSE "return")
                 EXCEPT !.sess = task[t].tgt, !.opened = ScopeOpened(task[t], task[t].op)]
    /\ UNCHANGED <<init_args, api_key, optimized>>

\* The body of a scope raises an exception of its own.
BodyRaise(t) ==
    /\ task[t].pc = "idle"
    /\ Len(task[t].scopes) > 0
    /\ task' = [task EXCEPT ![t].pc = "unwind"]
    /\ ev' = [Event(t, "body", "raise") EXCEPT !.exc = OtherError("Exception")]
    /\ UNCHANGED <<init_args, api_key, session, optimized, sstate>>

\* ---------------------------------------------------------------- dispatch

\* _BASE
BaseUrl == "https://v1.api.amethyste.moe"

\* The headers property.
headersWithoutKey == [Authorization |-> "Bearer "]

headers == [Authorization |-> "Bearer " \o api_key]

\* _request, line 154: {k: v for k, v in json.items() if v is not MISSING}
SendableIfTruthy(v) == Truthy(v)

Sendable(v) == v # MISSING

JsonBody(kw) == [k \in {n \in DOMAIN kw : Sendable(kw[n])} |-> kw[k]]

\* The calls of the model: _request('GET', '/generate', **kw) and
\* _generate_request(name, **kw), which is _request('POST', '/generate/' + name).
GenerateNames == {"crush", "triggered"}

Calls ==
    {[op |-> "_request", method |-> "GET", endpoint |-> "/generate"]} \cup
    {[op |-> "_generate_request", method |-> "POST", endpoint |-> "/generate/" \o n] :
        n \in GenerateNames}

\* _request, line 153: assert self.session is not None.  Under -O the assert is
\* gone and line 154 fails on None.request.
NoSessionErrorHTTP == HTTPExceptionInit(HTTPException, Dict({}))

NoSessionError == OtherError(IF optimized THEN "AttributeError" ELSE "AssertionError")

\* _request up to its await, reached by the public method name that was given
\* args (none for a direct call).  Without a session line 153 fails.  A
\* ClientSession that is closing or closed refuses the request.  Otherwise the
\* request is sent on the session.
Dispatch(t, name, args, call, kw) ==
    /\ task[t].pc = "idle"
    /\ IF session = NoSession \/ sstate[session] # "open"
       THEN /\ \E tk \in AfterRaise(task[t]) : task' = [task EXCEPT ![t] = tk]
            /\ ev' = [Event(t, name, "raise") EXCEPT
                        !.sess = session, !.args = args, !.kwargs = <<kw>>,
                        !.exc = IF session = NoSession THEN NoSessionError
                                ELSE OtherError("RuntimeError")]
       ELSE /\ task' = [task EXCEPT ![t] =
                           [@ EXCEPT !.pc = "await", !.op = call.op, !.tgt = session]]
            /\ ev' = [Event(t, name, "await") EXCEPT
                        !.sess = session, !.args = args, !.kwargs = <<kw>>,
                        !.sent = <<[session |-> session, method |-> call.method,
                                    url |-> BaseUrl \o call.endpoint,
                                    headers |-> headers, json |-> JsonBody(kw)]>>]
    /\ UNCHANGED <<init_args, api_key, session, optimized, sstate>>

\* await client._request(method, endpoint, **kw), or _generate_request(name, **kw)
Request(t, call, kw) == Dispatch(t, call.op, << >>, call, kw)

\* The arguments of triggered in the model: either spelling of greyscale may
\* be given or left out, and so may blur.
TriggeredArgs ==
    [image_url : {"'u'"}, blur : {MISSING, "True"},
     greyscale : {MISSING, "True", "False"}, grayscale : {MISSING, "True", "False"},
     horizontal : {MISSING}, invert : {MISSING}, sepia : {MISSING}, vertical : {MISSING}]

\* triggered, line 990: if greyscale is not MISSING and grayscale is not MISSING
BothGivenNever(greyscale, grayscale) == FALSE

BothGiven(greyscale, grayscale) == greyscale # MISSING /\ grayscale # MISSING

\* triggered, line 992: greyscale = grayscale if grayscale is not MISSING else greyscale
ResolvedIgnoringAlias(greyscale, grayscale) == greyscale

Resolved(greyscale, grayscale) == IF grayscale # MISSING THEN grayscale ELSE greyscale

\* triggered, line 993: the keyword arguments it passes to _generate_request.
TriggeredKwargs(a) ==
    [url |-> a.image_url, blue |-> a.blur,
     greyscale |-> Resolved(a.greyscale, a.grayscale),
     horizontal |-> a.horizontal, invert |-> a.invert, sepia |-> a.sepia,
     veritical |-> a.vertical]

\* await client.triggered(image_url, **a): TypeError when both spellings are
\* given, else _generate_request('triggered', ...).
Triggered(t, a) ==
    IF BothGiven(a.greyscale, a.grayscale)
    THEN /\ task[t].pc = "idle"
         /\ \E tk \in AfterRaise(task[t]) : task' = [task EXCEPT ![t] = tk]
         /\ ev' = [Event(t, "triggered", "raise") EXCEPT
                     !.sess = session, !.args = <<a>>, !.exc = OtherError("TypeError")]
         /\ UNCHANGED <<init_args, api_key, session, optimized, sstate>>
    ELSE Dispatch(t, "triggered", <<a>>,
                  [op |-> "_generate_request", method |-> "POST",
                   endpoint |-> "/generate/triggered"],
                  TriggeredKwargs(a))

\* _request, line 154: async with self.session.request(...) releases the
\* response, not the session.
SessionAfterRequestCleared == NoSession

SessionAfterRequest == session

\* _request, line 157: return data
ReturnedNothing(data) == NoData

Returned(data) == data

\* What the call of task record tk makes of a response: the exception it
\* raises (NoExc if none) and the data it returns.  _generate_request asserts
\* bytes (line 161) unless the asserts are removed.
Outcome(op, response) ==
    LET data == json_or_data(response)
        exc == raise_http_errors(data, response.status)
    IN  IF exc # NoExc
        THEN [exc |-> exc, data |-> NoData]
        ELSE IF op = "_generate_request" /\ Returned(data).type # "bytes" /\ ~optimized
        THEN [exc |-> OtherError("AssertionError"), data |-> NoData]
        ELSE [exc |-> NoExc, data |-> Returned(data)]

\* The response of a request in flight arrives and _request goes on after its
\* await.
Respond(t, response) ==
    /\ task[t].pc = "await"
    /\ task[t].op \in {"_request", "_generate_request"}
    /\ LET out == Outcome(task[t].op, response)
       IN  IF out.exc # NoExc
           THEN /\ \E tk \in AfterRaise(task[t]) : task' = [task EXCEPT ![t] = tk]
                /\ ev' = [Event(t, task[t].op, "raise") EXCEPT
                            !.sess = task[t].tgt, !.exc = out.exc, !.resp = <<response>>]
           ELSE /\ task' = [task EXCEPT ![t] =
                               [@ EXCEPT !.pc = "idle", !.op = "", !.tgt = NoSession]]
                /\ ev' = [Event(t, task[t].op, "return") EXCEPT
                            !.sess = task[t].tgt, !.data = out.data, !.resp = <<response>>]
    /\ session' = SessionAfterRequest
    /\ UNCHANGED <<init_args, api_key, optimized, sstate>>

\* The session of a request in flight was closed meanwhile: the request fails
\* in the transport, without a response.
ConnectionLost(t) ==
    /\ task[t].pc = "await"
    /\ task[t].op \in {"_request", "_generate_request"}
    /\ sstate[task[t].tgt] # "open"
    /\ \E tk \in AfterRaise(task[t]) : task' = [task EXCEPT ![t] = tk]
    /\ ev' = [Event(t, task[t].op, "raise") EXCEPT
                !.sess = task[t].tgt, !.exc = OtherError("ClientConnectionError")]
    /\ session' = SessionAfterRequest
    /\ UNCHANGED <<init_args, api_key, optimized, sstate>>

\* ---------------------------------------------------------- specification

\* One step of one of the callers T, nesting scopes up to depth, with the
\* dispatch arguments K, the arguments A of triggered and the server answers R.
Step(T, depth, K, A, R) ==
    \E t \in T :
        \/ CreateSession(t)
        \/ Close(t)
        \/ CloseDone(t)
        \/ AEnter(t, depth)
        \/ AExit(t)
        \/ BodyRaise(t)
        \/ \E call \in Calls, kw \in K : Request(t, call, kw)
        \/ \E a \in A : Triggered(t, a)
        \/ \E response \in R : Respond(t, response)

\* Concurrent callers: every interleaving of their steps, with a few
\* arguments and answers of each kind.
SomeKwargs ==
    {kw \in CallKwargs : DOMAIN kw = ParamNames /\ kw["url"] = "'u'"
                         /\ kw["greyscale"] = MISSING}

SomeTriggeredArgs ==
    {a \in TriggeredArgs : a.blur = MISSING /\ a.greyscale = "True"
                            /\ a.grayscale \in {MISSING, "False"}}

SomeResponses ==
    {r \in Responses : /\ r.status \in {200, 401, 418}
                       /\ r.body \in {PngBody, TokenBody}
                       /\ IsSuccess(r.status) <=> r.content_type = ImageType
                       /\ IsSuccess(r.status) <=> r.body = PngBody}

Next ==
    \/ Step(Tasks, MaxDepth, SomeKwargs, SomeTriggeredArgs, SomeResponses)
    \/ \E t \in Tasks : ConnectionLost(t)

Spec == Init /\ [][Next]_vars

\* One caller, with every argument mapping and every answer of the model.  It
\* awaits each call before the next, so no session is closed under a request.
SeqNext == Step({1}, MaxNested, CallKwargs, TriggeredArgs, Responses)

SeqSpec == Init /\ [][SeqNext]_vars

\* ------------------------------------------------------------------ claims

DispatchOps == {"_request", "_generate_request"}

\* The statuses of the taxonomy table.
TaxonomyStatuses == {400, 401, 403, 404, 413, 500, 501, 502, 503}

\* The message field of each body of the model, read off its text.
BodyMessage(raw) == IF raw = TokenBody THEN <<"invalid token">> ELSE << >>

\* The entries of each JSON body of the model, read off its text.
BodyItems(raw) ==
    CASE raw = TokenBody -> {<<"message", "invalid token">>}
      [] raw = UrlBody -> {<<"url", "w">>}
      [] OTHER -> {}

\* C1: in every state reachable by interleavings of create_session and close,
\* at most one session that was created and is not yet closed exists, whether
\* or not the Client still references it.
C1_AtMostOneLiveSession == Cardinality(Live) <= 1

\* C2: create_session is idempotent.  Called with no session it constructs
\* exactly one and holds it; called while a session is held it constructs
\* nothing and leaves the reference and every session as they were.  Either
\* way it returns, and the session held is then the one live session.
C2_CreateSessionIdempotent ==
    [][\A t \in Tasks :
          (ev'.task = t /\ ev'.op = "create_session" /\ task[t].pc = "idle") =>
             /\ ev'.kind = "return"
             /\ IF session = NoSession
                THEN /\ session' \in SessionIds \ Created
                     /\ Created' = Created \cup {session'}
                ELSE /\ session' = session
                     /\ sstate' = sstate
             /\ Live' = {session'}
             /\ sstate'[session'] = "open"]_vars

C2_Witness ==
    /\ ev.op = "create_session"
    /\ ~ev.fresh
    /\ session # NoSession
    /\ Cardinality(Created) = 1

\* C3: close is idempotent.  With a session held it closes that session and
\* sets the reference to None; with none held (a second close, or a Client
\* never opened) it returns at once, raises nothing and changes nothing.
C3_CloseIdempotent ==
    [][\A t \in Tasks :
          /\ (ev'.task = t /\ ev'.op = "close" /\ task[t].pc = "idle") =>
                IF session = NoSession
                THEN /\ ev'.kind = "return"
                     /\ ev'.exc = NoExc
                     /\ <<session', sstate', task'>> = <<session, sstate, task>>
                ELSE /\ ev'.kind = "await"
                     /\ task'[t].tgt = session
                     /\ session' = session
          /\ (ev'.task = t /\ ev'.op = "close" /\ task[t].pc = "await") =>
                /\ ev'.kind = "return"
                /\ ev'.exc = NoExc
                /\ task[t].tgt = session
                /\ sstate'[session] = "closed"
                /\ session' = NoSession
                /\ Live' = {}]_vars

C3_Witness ==
    /\ ev.op = "close"
    /\ ev.kind = "return"
    /\ ev.sess = NoSession
    /\ \E s \in SessionIds : sstate[s] = "closed"

\* C4: async with.  After __aenter__ a session is held; after __aexit__,
\* reached by the end of the body or by an exception leaving it, the session
\* reference is None and the session that was opened for the scope is closed.
C4_ScopeLeavesSessionClosed ==
    /\ ev.op = "__aenter__" =>
          /\ ev.kind = "return"
          /\ session # NoSession
          /\ sstate[session] = "open"
          /\ ev.sess = session
          /\ ev.fresh => Live = {session}
    /\ (ev.op = "__aexit__" /\ ev.kind # "await") =>
          /\ session = NoSession
          /\ ev.opened # NoSession => sstate[ev.opened] = "closed"
          /\ Live = {}

C4_Witness ==
    /\ ev.op = "__aexit__"
    /\ ev.kind = "raise"
    /\ ev.opened # NoSession
    /\ sstate[ev.opened] = "closed"

\* C5: a dispatch while the Client holds no session raises an error that is no
\* HTTPException, sends no request and creates no session.
C5_NoSessionFailsFast ==
    [][\A t \in Tasks :
          (ev'.task = t /\ ev'.op \in DispatchOps /\ task[t].pc = "idle"
              /\ session = NoSession) =>
             /\ ev'.kind = "raise"
             /\ ev'.exc # NoExc
             /\ ~IsHTTPException(ev'.exc)
             /\ ev'.sent = NoRequest
             /\ task'[t].pc # "await"
             /\ session' = NoSession
             /\ sstate' = sstate]_vars

C5_Witness ==
    /\ ev.op \in DispatchOps
    /\ ev.kind = "raise"
    /\ ev.sess = NoSession
    /\ ev.exc.cls \in {"AssertionError", "AttributeError"}
    /\ \E s \in SessionIds : sstate[s] = "closed"

\* C6: a response whose status is one of the nine of the taxonomy makes the
\* dispatch raise one HTTP error of a specific kind, whose status is the
\* response's and whose message is the message of the body, and return
\* nothing; 401 with {"message": "invalid token"} raises Unauthorized.
C6_TaxonomyStatusRaisesItsKind ==
    (ev.resp # << >> /\ ev.resp[1].status \in TaxonomyStatuses) =>
        /\ ev.kind = "raise"
        /\ IsHTTPException(ev.exc)
        /\ ev.exc.cls # "HTTPException"
        /\ ev.exc.status = ev.resp[1].status
        /\ ev.exc.message = BodyMessage(ev.resp[1].body)
        /\ ev.data = NoData
        /\ (ev.resp[1].status = 401 /\ ev.resp[1].body = TokenBody) =>
              /\ ev.exc.cls = "Unauthorized"
              /\ ev.exc.message = <<"invalid token">>

C6_Witness ==
    /\ ev.resp # << >>
    /\ ev.resp[1].status = 503
    /\ ev.resp[1].content_type = ImageType
    /\ ev.exc.cls = "ServiceUnavailiable"
    /\ ev.exc.message = <<"invalid token">>

\* C7: a failure status outside the taxonomy (418) makes the dispatch raise
\* the generic HTTPException, carrying the status of the response and the
\* message of the body, and return nothing.
C7_UnknownStatusRaisesGeneric ==
    (ev.resp # << >> /\ ~IsSuccess(ev.resp[1].status)
        /\ ev.resp[1].status \notin TaxonomyStatuses) =>
        /\ ev.kind = "raise"
        /\ ev.exc.cls = "HTTPException"
        /\ ev.exc.status = ev.resp[1].status
        /\ ev.exc.message = BodyMessage(ev.resp[1].body)
        /\ ev.data = NoData

\* C8: the JSON body of a request holds exactly the arguments that are not
\* MISSING, each with the value it was given, falsy or not.
C8_BodyOmitsOnlyMissing ==
    ev.sent # NoRequest =>
        LET kw == ev.kwargs[1]
            body == ev.sent[1].json
        IN  /\ DOMAIN body = {k \in DOMAIN kw : kw[k] # "MISSING"}
            /\ \A k \in DOMAIN body : body[k] = kw[k]

C8_Witness ==
    /\ ev.sent # NoRequest
    /\ DOMAIN ev.kwargs[1] = {"url", "greyscale"}
    /\ ev.kwargs[1]["greyscale"] = "False"
    /\ ev.kwargs[1]["url"] = "''"
    /\ ev.sent[1].json = [url |-> "''", greyscale |-> "False"]

\* C9: every request sent carries Authorization: Bearer <api_key>, with the
\* api key the Client was constructed with, and self.api_key never changes.
C9_BearerOfConstructionKey ==
    /\ api_key = init_args.api_key
    /\ ev.sent # NoRequest =>
          ev.sent[1].headers = [Authorization |-> "Bearer " \o init_args.api_key]

C9_Witness ==
    /\ ev.sent # NoRequest
    /\ ev.sent[1].headers = [Authorization |-> "Bearer key-b"]
    /\ Cardinality(Created) > 1

\* C10: on a success status _request raises nothing and returns the decoded
\* body: the mapping of a JSON response, the bytes of any other, and a
\* generation call answered with bytes returns these bytes.
C10_SuccessReturnsDecodedBody ==
    (ev.resp # << >> /\ IsSuccess(ev.resp[1].status)
        /\ (ev.op = "_request" \/ ev.resp[1].content_type # JsonType)) =>
        /\ ev.kind = "return"
        /\ ev.exc = NoExc
        /\ IF ev.resp[1].content_type = JsonType
           THEN /\ ev.data.type = "dict"
                /\ ev.data.items = BodyItems(ev.resp[1].body)
           ELSE /\ ev.data.type = "bytes"
                /\ ev.data.raw = ev.resp[1].body

C10_Witness ==
    /\ ev.op = "_generate_request"
    /\ ev.sess # NoSession
    /\ ev.resp = <<[status |-> 200, content_type |-> ImageType, body |-> PngBody]>>
    /\ ev.data = Bytes(PngBody)

\* The public names a dispatch is reached by in the model.
DispatchNames == DispatchOps \cup {"triggered"}

\* C11: triggered given greyscale and grayscale with different values raises
\* an error that is no HTTPException, sends no request and is not suspended
\* on one: neither value is used.
C11_ConflictingSpellingsRejected ==
    (ev.op = "triggered" /\ ev.args # << >>
        /\ ev.args[1].greyscale # "MISSING" /\ ev.args[1].grayscale # "MISSING"
        /\ ev.args[1].greyscale # ev.args[1].grayscale) =>
        /\ ev.kind = "raise"
        /\ ev.exc # NoExc
        /\ ~IsHTTPException(ev.exc)
        /\ ev.sent = NoRequest
        /\ task[ev.task].pc # "await"

C11_Witness ==
    /\ ev.op = "triggered"
    /\ ev.args # << >>
    /\ ev.args[1].greyscale = "True"
    /\ ev.args[1].grayscale = "False"
    /\ ev.exc.cls = "TypeError"
    /\ session # NoSession

\* C12: a dispatch never changes the session reference nor the state of any
\* session.  When it raises an HTTP error the session it used is still held
\* and open, nothing is sent again, and the next dispatch of the caller is
\* sent on that same session with no session constructed.
C12_DispatchKeepsSession ==
    [][\A t \in Tasks :
          /\ (ev'.task = t /\ ev'.op \in DispatchNames) =>
                /\ session' = session
                /\ sstate' = sstate
          /\ (ev'.task = t /\ ev'.op \in DispatchOps /\ task[t].pc = "await"
                 /\ IsHTTPException(ev'.exc)) =>
                /\ session' = task[t].tgt
                /\ sstate'[session'] = "open"
                /\ ev'.sent = NoRequest
                /\ task'[t].pc # "await"
          /\ (ev.task = t /\ IsHTTPException(ev.exc) /\ task[t].pc = "idle"
                 /\ ev'.task = t /\ ev'.op \in DispatchNames
                 /\ ev'.exc.cls # "TypeError") =>
                /\ ev'.kind = "await"
                /\ ev'.sent # NoRequest
                /\ ev'.sent[1].session = ev.sess
                /\ Created' = Created]_vars

C12_Witness ==
    /\ ev.op \in DispatchOps
    /\ ev.kind = "raise"
    /\ IsHTTPException(ev.exc)
    /\ session = ev.sess
    /\ sstate[session] = "open"
    /\ Cardinality(Created) = 1

\* C13: a generation call returns bytes only: a success response that decodes
\* to a mapping makes it raise an error that is no HTTPException.
C13_GenerationReturnsOnlyBytes ==
    /\ (ev.op = "_generate_request" /\ ev.kind = "return") => ev.data.type = "bytes"
    /\ (ev.op = "_generate_request" /\ ev.resp # << >>
           /\ IsSuccess(ev.resp[1].status) /\ ev.resp[1].content_type = JsonType) =>
          /\ ev.kind = "raise"
          /\ ev.exc # NoExc
          /\ ~IsHTTPException(ev.exc)

\* C14: on a failure status the error is built from the body decoded as JSON
\* whatever the content type: it is the error the same body raises when
\* delivered as a mapping, its message is the message field of the body, and
\* a body without that field gives an error with no message.
C14_ErrorFromJsonDecodedBody ==
    (ev.resp # << >> /\ ~IsSuccess(ev.resp[1].status)) =>
        /\ ev.kind = "raise"
        /\ IsHTTPException(ev.exc)
        /\ ev.exc.message = BodyMessage(ev.resp[1].body)
        /\ ev.exc = raise_http_errors(Dict(BodyItems(ev.resp[1].body)), ev.resp[1].status)

C14_Witness ==
    /\ ev.resp # << >>
    /\ ev.resp[1].status = 404
    /\ ev.resp[1].content_type = ImageType
    /\ ev.resp[1].body = TokenBody
    /\ ev.exc.cls = "NotFound"
    /\ ev.exc.message = <<"invalid token">>

\* C15: the keys of error_mapping are exactly the nine statuses of the
\* taxonomy, each mapped to the class of that status, and the generic
\* HTTPException is no entry of it; this is so for every Client constructed.
C15_RegistryIsTheClosedSet ==
    init_args.api_key \in ApiKeys =>
        /\ DOMAIN error_mapping = TaxonomyStatuses
        /\ \A s \in DOMAIN error_mapping :
              /\ error_mapping[s].status = s
              /\ error_mapping[s].name # "HTTPException"

\* C16: in every interleaving, when create_session returns the Client holds a
\* session on which close has not been called.
C16_CreateSessionReturnsOpenSession ==
    (ev.op = "create_session" /\ ev.kind = "return") =>
        /\ session # NoSession
        /\ sstate[session] = "open"

\* C17: a scope entered while a session is held constructs nothing, and the
\* exit of a scope leaves the reference None and no session open, also when
\* the session it closes was not opened by that scope; a dispatch after that
\* fails for want of a session, sending nothing.
C17_ScopeExitClosesAnySession ==
    [][\A t \in Tasks :
          /\ (ev'.task = t /\ ev'.op = "__aenter__" /\ task[t].pc = "idle"
                 /\ session # NoSession) =>
                /\ session' = session
                /\ sstate' = sstate
                /\ task'[t].scopes = Append(task[t].scopes, NoSession)
          /\ (ev'.task = t /\ ev'.op = "__aexit__" /\ ev'.kind # "await") =>
                /\ session' = NoSession
                /\ Live' = {}
                /\ ev'.sess # NoSession => sstate'[ev'.sess] = "closed"
          /\ (ev'.task = t /\ ev'.op \in DispatchOps /\ task[t].pc = "idle"
                 /\ session = NoSession) =>
                /\ ev'.kind = "raise"
                /\ ~IsHTTPException(ev'.exc)
                /\ ev'.exc.cls \in {"AssertionError", "AttributeError"}
                /\ ev'.sent = NoRequest]_vars

C17_Witness ==
    /\ ev.op = "__aexit__"
    /\ ev.kind = "return"
    /\ ev.opened = NoSession
    /\ ev.sess # NoSession
    /\ sstate[ev.sess] = "closed"
    /\ session = NoSession
    /\ Len(task[ev.task].scopes) = 1
    /\ task[ev.task].scopes[1] = ev.sess

\* C18: triggered raises whenever both spellings are given, equal or not, and
\* sends nothing; given exactly one, the body has the key greyscale with the
\* value given, whichever the spelling, and no key grayscale; given neither,
\* the body has neither key.
C18_SpellingsResolveToOneKey ==
    (ev.op = "triggered" /\ ev.args # << >>) =>
        LET a == ev.args[1]
            given == {v \in {a.greyscale, a.grayscale} : v # "MISSING"}
            both == a.greyscale # "MISSING" /\ a.grayscale # "MISSING"
        IN  /\ both => /\ ev.kind = "raise"
                       /\ ev.exc.cls = "TypeError"
                       /\ ev.sent = NoRequest
            /\ (~both /\ ev.sess # NoSession) => ev.sent # NoRequest
            /\ (~both /\ ev.sent # NoRequest) =>
                  LET body == ev.sent[1].json
                  IN  /\ "grayscale" \notin DOMAIN body
                      /\ IF given = {}
                         THEN "greyscale" \notin DOMAIN body
                         ELSE /\ "greyscale" \in DOMAIN body
                              /\ given = {body["greyscale"]}

C18_Witness ==
    /\ ev.op = "triggered"
    /\ ev.args # << >>
    /\ ev.args[1].greyscale = "MISSING"
    /\ ev.args[1].grayscale = "False"
    /\ ev.sent # NoRequest
    /\ ev.sent[1].json = [url |-> "'u'", greyscale |-> "False"]

====
